---------------------------- MODULE Spec2Model ----------------------------
(***************************************************************************)
(* A model of the Chatbot repository: the chat component (ChatBox.tsx),    *)
(* the upload form (UploadForm), the axios client (lib/api) and, where the *)
(* backend decides a property, the backend contract of the API            *)
(* documentation and the design specification.                             *)
(*                                                                         *)
(* Independent state machines share the module:                            *)
(*   ChatSpec    the ChatBox component and the /chat, /history, /feedback  *)
(*               requests it issues;                                       *)
(*   UploadSpec  the UploadForm component and its /upload requests;        *)
(*   BackendSpec the backend entry points ingest, query, record_feedback;  *)
(*   HealthSpec  the backend's health check.                               *)
(***************************************************************************)
EXTENDS Integers, Sequences, FiniteSets, TLC

VARIABLES
    \* ---- ChatBox.tsx ----
    messages,        \* useState<Message[]>: the displayed transcript
    inputValue,      \* useState(""): the text of the input field
    isLoading,       \* useState(false)
    sessionId,       \* useState(() => ...): the current session
    storedSessionId, \* localStorage['chatSessionId']
    chatReqs,        \* /chat requests awaited by a sendMessage call
    histReqs,        \* /history requests awaited by a loadChatHistory call
    serverHistory,   \* backend: session id -> stored history
    lastToast,       \* title of the toast raised by the latest handler, or "none"
    nextReq,         \* number of the next /chat request (crypto.randomUUID is fresh)
    nextSession,     \* the next fresh session id
    \* ---- UploadForm (part_001) ----
    files,                \* useState<UploadedFile[]>
    password,             \* useState("")
    isPasswordDialogOpen, \* useState(false)
    currentFileToUpload,  \* useState<UploadedFile | null>: <<>> stands for null
    uploads,              \* /upload requests awaited by an uploadFile call
    timers,               \* ids of the files whose progressInterval is running
    uploadToast,          \* title of the toast raised by the latest handler, or "none"
    nextFileId,           \* the next fresh file id (crypto.randomUUID is fresh)
    \* ---- the backend (API documentation, part_000:1-336) ----
    docs,            \* doc_id -> Document: status, ingestion phase, chunk counts
    index,           \* the vector index: the vectors upserted, as (doc_id, chunk_index)
    queryResult,     \* the chunks the latest query returned
    ingestResult,    \* the result of the latest ingestion that ended
    feedbackStore,   \* the feedback records stored, in order
    feedbackResult,  \* the result of the latest record_feedback call
    nextDoc,         \* the next fresh doc_id
    \* ---- the backend's health check (API documentation, part_000:141-159) ----
    probes,          \* service -> the state of its probe in the running check
    healthResult     \* the HealthResponse the latest check returned

chatVars == <<messages, inputValue, isLoading, sessionId, storedSessionId,
              chatReqs, histReqs, serverHistory, lastToast,
              nextReq, nextSession>>

uploadVars == <<files, password, isPasswordDialogOpen, currentFileToUpload,
                uploads, timers, uploadToast, nextFileId>>

backendVars == <<docs, index, queryResult, ingestResult, feedbackStore,
                 feedbackResult, nextDoc>>

healthVars == <<probes, healthResult>>

vars == <<chatVars, uploadVars, backendVars, healthVars>>

-----------------------------------------------------------------------------
(* Bounds of the model *)

\* /chat requests issued in one behaviour
MaxReqs == 2
\* session ids handed out in one behaviour (the stored one included)
MaxSessions == 2
\* files added to the upload form in one behaviour
MaxFiles == 2
\* documents handed to ingest in one behaviour
MaxDocs == 2
\* chunks the chunker cuts one document into
MaxChunks == 2
\* feedback records stored in one behaviour
MaxFeedback == 1

-----------------------------------------------------------------------------
(* The values the environment supplies *)

\* what the user can type into the input field (ChatBox.tsx:204-211)
Inputs == {"", " ", "q1"}

\* String.prototype.trim on the inputs above
Trim(v) == IF v = " " THEN "" ELSE v

\* two source citations of a /chat response (part_000:67-78): two pages of
\* one file
Src1 == [filename |-> "doc.pdf", page |-> 1]
Src2 == [filename |-> "doc.pdf", page |-> 2]

\* the citations of the chunks included in the final prompt of an answer, by
\* descending score: two chunks of page 1 and one of page 2
IncludedChunks == <<Src1, Src2, Src1>>

\* DeriveSources that cites every chunk (a bug)
DeriveSources_NoDedup(chunks) == chunks

RECURSIVE DeriveSources(_)
\* the backend's answer(question, session_id), step 6: sources is the
\* deduplicated (filename, page) sequence of the chunks included in the prompt
DeriveSources(chunks) ==
    IF chunks = <<>> THEN <<>>
    ELSE LET rest == DeriveSources(SubSeq(chunks, 1, Len(chunks) - 1))
             last == chunks[Len(chunks)] IN
         IF \E i \in 1..Len(rest) : rest[i] = last THEN rest ELSE Append(rest, last)

\* the bodies a successful /chat response can carry (part_000:67-78);
\* hasSources = FALSE is a body without the "sources" field
ChatResponses ==
    { [answer |-> "a1", hasSources |-> FALSE, sources |-> <<>>],
      [answer |-> "a2", hasSources |-> TRUE,  sources |-> DeriveSources(IncludedChunks)] }

\* what a rejected axios promise can carry: isError = error instanceof Error,
\* code = error.code, hasResponse = error.response is set,
\* dataError = error.response.data.error ("" when absent)
Errors ==
    { [isError |-> TRUE,  code |-> "ERR_NETWORK",      hasResponse |-> FALSE, dataError |-> ""],
      [isError |-> TRUE,  code |-> "ERR_BAD_RESPONSE", hasResponse |-> TRUE,  dataError |-> "boom"],
      [isError |-> TRUE,  code |-> "ERR_BAD_RESPONSE", hasResponse |-> TRUE,  dataError |-> ""],
      [isError |-> FALSE, code |-> "ERR_NETWORK",      hasResponse |-> TRUE,  dataError |-> "boom"] }

\* the histories the backend can hold for the stored session when the page
\* loads; sources is what the entry carries in its "sources" field, <<>> when
\* it has none
InitialHistories ==
    { <<>>,
      << [role |-> "user", message |-> "q1", sources |-> <<>>],
         [role |-> "bot", message |-> "a2", sources |-> DeriveSources(IncludedChunks)] >> }

Sessions == 1..MaxSessions

-----------------------------------------------------------------------------
(* ChatBox.tsx: pure parts *)

GenericErrorText == "Sorry, I'm having trouble connecting to the server. Please try again."
NetworkErrorText == "Network error: Unable to connect to the server. Please check your connection."

\* `Server error: ${error.response?.data?.error || 'Unknown error occurred'}`
ServerErrorText(dataError) ==
    IF dataError = "boom" THEN "Server error: boom"
    ELSE "Server error: Unknown error occurred"

\* sendMessage, catch branch: the text of the error message (ChatBox.tsx:94-102)
ErrorMessageText(err) ==
    IF err.isError
    THEN IF err.code = "ERR_NETWORK" THEN NetworkErrorText
         ELSE IF err.hasResponse THEN ServerErrorText(err.dataError)
         ELSE GenericErrorText
    ELSE GenericErrorText

ErrorTexts == {ErrorMessageText(e) : e \in Errors}

\* response.sources || []
SourcesOrEmpty(resp) == IF resp.hasSources THEN resp.sources ELSE <<>>

\* A Message (ChatBox.tsx:11-16).  id stands for crypto.randomUUID(): k and n
\* make it unique.  req, sid and err are history variables kept in the record:
\* the /chat request the message belongs to (0: loaded from history), the
\* session that request was issued for, and whether the catch branch built it.
\* A message without a sources field carries <<>>.
UserMessage(text, req, sid) ==
    [id |-> [k |-> "u", n |-> req, i |-> 0], text |-> text, isBot |-> FALSE,
     sources |-> <<>>, req |-> req, sid |-> sid, err |-> FALSE]

BotMessage(r, resp) ==
    [id |-> [k |-> "b", n |-> r.req, i |-> 0], text |-> resp.answer, isBot |-> TRUE,
     sources |-> SourcesOrEmpty(resp), req |-> r.req, sid |-> r.sid, err |-> FALSE]

ErrorBotMessage(r, err) ==
    [id |-> [k |-> "b", n |-> r.req, i |-> 0], text |-> ErrorMessageText(err),
     isBot |-> TRUE, sources |-> <<>>, req |-> r.req, sid |-> r.sid, err |-> TRUE]

\* loadChatHistory: one entry of historyData.history.map(...) (ChatBox.tsx:47-52)
\* item.sources || [] is the sources field of the entry, <<>> when absent
FormatItem(item, sid, i) ==
    [id |-> [k |-> "h", n |-> sid, i |-> i], text |-> item.message,
     isBot |-> (item.role # "user"), sources |-> item.sources, req |-> 0, sid |-> sid,
     err |-> FALSE]

\* FormatHistory with the entries in reverse order (a bug)
FormatHistory_Reversed(history, sid) ==
    [i \in 1..Len(history) |->
        FormatItem(history[Len(history) + 1 - i], sid, i)]

\* loadChatHistory: formattedMessages (ChatBox.tsx:47-52)
FormatHistory(history, sid) ==
    [i \in 1..Len(history) |-> FormatItem(history[i], sid, i)]

\* handleFeedback: the body sent to /feedback (ChatBox.tsx:131-137)
FeedbackPayload(sid, question, answer, feedback) ==
    [session_id |-> sid, question |-> question, answer |-> answer,
     rating |-> IF feedback = "positive" THEN 5 ELSE 1,
     comments |-> IF feedback = "positive"
                  THEN "User rated this response as positive"
                  ELSE "User rated this response as negative"]

\* messages.findIndex(m => m.id === messageId): 0 stands for -1
FindIndex(msgs, messageId) ==
    IF \E i \in 1..Len(msgs) : msgs[i].id = messageId
    THEN CHOOSE i \in 1..Len(msgs) :
            /\ msgs[i].id = messageId
            /\ \A j \in 1..(i - 1) : msgs[j].id # messageId
    ELSE 0

-----------------------------------------------------------------------------
(* ChatBox.tsx: the component *)

\* what localStorage.getItem('chatSessionId') can return when the page loads:
\* 0 stands for null and for "" (both falsy), 1 for an id stored earlier
SavedSessionIds == {0, 1}

\* the initialiser of sessionId (ChatBox.tsx:22-28): the saved id, or a fresh
\* one (newId) that is stored; item is localStorage['chatSessionId'] afterwards
SessionIdInitialiser(saved, newId) ==
    IF saved # 0
    THEN [sessionId |-> saved, item |-> saved]
    ELSE [sessionId |-> newId, item |-> newId]

\* useState initialisers (ChatBox.tsx:19-28) followed by the mount effect
\* (ChatBox.tsx:38-65), which sets isLoading and issues the first /history
\* request.  Session 1 is the stored or freshly generated id; the backend
\* holds no history of a freshly generated one.
ChatInit ==
    /\ messages = <<>>
    /\ inputValue = ""
    /\ isLoading = TRUE
    /\ \E saved \in SavedSessionIds, h \in InitialHistories :
          /\ sessionId = SessionIdInitialiser(saved, 1).sessionId
          /\ storedSessionId = SessionIdInitialiser(saved, 1).item
          /\ saved = 0 => h = <<>>
          /\ serverHistory = [s \in Sessions |-> IF s = 1 THEN h ELSE <<>>]
          /\ histReqs = {[sid |-> SessionIdInitialiser(saved, 1).sessionId, hung |-> FALSE]}
    /\ chatReqs = {}
    /\ lastToast = "none"
    /\ nextReq = 1
    /\ nextSession = 2

\* onChange of the input, which is disabled while isLoading (ChatBox.tsx:204-211)
SetInputValue(v) ==
    /\ ~isLoading
    /\ inputValue' = v
    /\ lastToast' = "none"
    /\ UNCHANGED <<messages, isLoading, sessionId, storedSessionId, chatReqs,
                   histReqs,  serverHistory, nextReq, nextSession>>
    /\ UNCHANGED <<uploadVars, backendVars, healthVars>>

\* sendMessage up to its await (ChatBox.tsx:67-81)
SendMessage ==
    /\ nextReq <= MaxReqs
    /\ lastToast' = "none"
    /\ IF Trim(inputValue) = "" \/ isLoading
       THEN UNCHANGED <<messages, inputValue, isLoading, chatReqs, nextReq>>
       ELSE /\ messages' = Append(messages, UserMessage(inputValue, nextReq, sessionId))
            /\ inputValue' = ""
            /\ isLoading' = TRUE
            /\ chatReqs' = chatReqs \cup
                  {[req |-> nextReq, sid |-> sessionId, question |-> inputValue,
                    hung |-> FALSE]}
            /\ nextReq' = nextReq + 1
    /\ UNCHANGED <<sessionId, storedSessionId, histReqs, serverHistory, nextSession>>
    /\ UNCHANGED <<uploadVars, backendVars, healthVars>>

\* the backend's answer(question, session_id), step 7: the question and the
\* answer are appended to the session's history as two ordered messages, with
\* the sources attached to the bot message
ServerAppend(hist, r, resp) ==
    [hist EXCEPT ![r.sid] = @ \o
        << [role |-> "user", message |-> r.question, sources |-> <<>>],
           [role |-> "bot", message |-> resp.answer, sources |-> resp.sources] >>]

\* sendMessage after its await, the promise fulfilled (ChatBox.tsx:81-90, 117-119)
ChatResolve(r, resp) ==
    /\ r \in chatReqs /\ ~r.hung
    /\ chatReqs' = chatReqs \ {r}
    /\ serverHistory' = ServerAppend(serverHistory, r, resp)
    /\ messages' = Append(messages, BotMessage(r, resp))
    /\ isLoading' = FALSE
    /\ lastToast' = "none"
    /\ UNCHANGED <<inputValue, sessionId, storedSessionId, histReqs, nextReq, nextSession>>
    /\ UNCHANGED <<uploadVars, backendVars, healthVars>>

\* ChatReject without the finally block (a bug): isLoading is left as it is
ChatReject_NoFinally(r, err) ==
    /\ r \in chatReqs /\ ~r.hung
    /\ chatReqs' = chatReqs \ {r}
    /\ messages' = Append(messages, ErrorBotMessage(r, err))
    /\ lastToast' = "Connection Error"
    /\ UNCHANGED <<inputValue, isLoading, sessionId, storedSessionId, histReqs,
                   serverHistory, nextReq, nextSession>>
    /\ UNCHANGED <<uploadVars, backendVars, healthVars>>

\* ChatReject with setMessages([errorBotMessage]) for the functional update (a
\* bug): the transcript is replaced by the error message
ChatReject_Replaces(r, err) ==
    /\ r \in chatReqs /\ ~r.hung
    /\ chatReqs' = chatReqs \ {r}
    /\ messages' = <<ErrorBotMessage(r, err)>>
    /\ isLoading' = FALSE
    /\ lastToast' = "Connection Error"
    /\ UNCHANGED <<inputValue, sessionId, storedSessionId, histReqs,
                   serverHistory, nextReq, nextSession>>
    /\ UNCHANGED <<uploadVars, backendVars, healthVars>>

\* sendMessage after its await, the promise rejected (ChatBox.tsx:91-119)
ChatReject(r, err) ==
    /\ r \in chatReqs /\ ~r.hung
    /\ chatReqs' = chatReqs \ {r}
    /\ messages' = Append(messages, ErrorBotMessage(r, err))
    /\ isLoading' = FALSE
    /\ lastToast' = "Connection Error"
    /\ UNCHANGED <<inputValue, sessionId, storedSessionId, histReqs, serverHistory, nextReq, nextSession>>
    /\ UNCHANGED <<uploadVars, backendVars, healthVars>>

\* The server never answers a /chat request.  axios.create sets no timeout
\* (part_000:343-348; the axios default is 0, no timeout), so the promise of
\* such a request is never settled.
ChatHang(r) ==
    /\ r \in chatReqs /\ ~r.hung
    /\ chatReqs' = (chatReqs \ {r}) \cup {[r EXCEPT !.hung = TRUE]}
    /\ lastToast' = "none"
    /\ UNCHANGED <<messages, inputValue, isLoading, sessionId, storedSessionId,
                   histReqs,  serverHistory, nextReq, nextSession>>
    /\ UNCHANGED <<uploadVars, backendVars, healthVars>>

\* loadChatHistory after its await, the promise fulfilled (ChatBox.tsx:44-55, 59-61);
\* the backend returns the stored history of the session (get_history)
HistoryResolve(h) ==
    /\ h \in histReqs /\ ~h.hung
    /\ histReqs' = histReqs \ {h}
    /\ LET history == serverHistory[h.sid] IN
          IF Len(history) > 0
          THEN messages' = FormatHistory(history, h.sid)
          ELSE UNCHANGED messages
    /\ isLoading' = FALSE
    /\ lastToast' = "none"
    /\ UNCHANGED <<inputValue, sessionId, storedSessionId, chatReqs, serverHistory, nextReq, nextSession>>
    /\ UNCHANGED <<uploadVars, backendVars, healthVars>>

\* HistoryReject with the catch branch of sendMessage (a bug): the failure is
\* shown to the user
HistoryReject_ShowsError(h) ==
    /\ h \in histReqs /\ ~h.hung
    /\ histReqs' = histReqs \ {h}
    /\ isLoading' = FALSE
    /\ lastToast' = "Connection Error"
    /\ UNCHANGED <<messages, inputValue, sessionId, storedSessionId, chatReqs,
                   serverHistory, nextReq, nextSession>>
    /\ UNCHANGED <<uploadVars, backendVars, healthVars>>

\* loadChatHistory after its await, the promise rejected (ChatBox.tsx:56-61)
HistoryReject(h) ==
    /\ h \in histReqs /\ ~h.hung
    /\ histReqs' = histReqs \ {h}
    /\ isLoading' = FALSE
    /\ lastToast' = "none"
    /\ UNCHANGED <<messages, inputValue, sessionId, storedSessionId, chatReqs,
                    serverHistory, nextReq, nextSession>>
    /\ UNCHANGED <<uploadVars, backendVars, healthVars>>

\* The server never answers a /history request (no timeout, as for ChatHang)
HistoryHang(h) ==
    /\ h \in histReqs /\ ~h.hung
    /\ histReqs' = (histReqs \ {h}) \cup {[h EXCEPT !.hung = TRUE]}
    /\ lastToast' = "none"
    /\ UNCHANGED <<messages, inputValue, isLoading, sessionId, storedSessionId,
                   chatReqs,  serverHistory, nextReq, nextSession>>
    /\ UNCHANGED <<uploadVars, backendVars, healthVars>>

\* CreateNewSession without localStorage.setItem (a bug)
CreateNewSession_NoStore ==
    /\ nextSession <= MaxSessions
    /\ sessionId' = nextSession
    /\ messages' = <<>>
    /\ lastToast' = "New Session Created"
    /\ isLoading' = TRUE
    /\ histReqs' = histReqs \cup {[sid |-> nextSession, hung |-> FALSE]}
    /\ nextSession' = nextSession + 1
    /\ UNCHANGED <<inputValue, chatReqs, storedSessionId, serverHistory, nextReq>>
    /\ UNCHANGED <<uploadVars, backendVars, healthVars>>

\* createNewSession (ChatBox.tsx:160-169) and the effect its setSessionId
\* triggers: loadChatHistory up to its await (ChatBox.tsx:38-44, 64-65)
CreateNewSession ==
    /\ nextSession <= MaxSessions
    /\ storedSessionId' = nextSession
    /\ sessionId' = nextSession
    /\ messages' = <<>>
    /\ lastToast' = "New Session Created"
    /\ isLoading' = TRUE
    /\ histReqs' = histReqs \cup {[sid |-> nextSession, hung |-> FALSE]}
    /\ nextSession' = nextSession + 1
    /\ UNCHANGED <<inputValue, chatReqs,  serverHistory, nextReq>>
    /\ UNCHANGED <<uploadVars, backendVars, healthVars>>

\* the message ids a click on a feedback button can carry, and one that no
\* message has
MessageIds == {messages[i].id : i \in 1..Len(messages)} \cup
              {[k |-> "x", n |-> 0, i |-> 0]}

\* FeedbackRequests without the test of the preceding entry (a bug)
FeedbackRequests_AnyPredecessor(msgs, sid, messageId, feedback) ==
    LET messageIndex == FindIndex(msgs, messageId) IN
        IF messageIndex = 0 \/ ~msgs[messageIndex].isBot
        THEN {}
        ELSE IF messageIndex = 1
        THEN {}
        ELSE {FeedbackPayload(sid, msgs[messageIndex - 1].text,
                              msgs[messageIndex].text, feedback)}

\* handleFeedback up to its await (ChatBox.tsx:122-137): the bodies it posts
\* to /feedback when it is called with messageId and feedback, none or one
FeedbackRequests(msgs, sid, messageId, feedback) ==
    LET messageIndex == FindIndex(msgs, messageId) IN
        IF messageIndex = 0 \/ ~msgs[messageIndex].isBot
        THEN {}
        ELSE IF messageIndex = 1 \/ msgs[messageIndex - 1].isBot
        THEN {}
        ELSE {FeedbackPayload(sid, msgs[messageIndex - 1].text,
                              msgs[messageIndex].text, feedback)}

\* handleFeedback (ChatBox.tsx:122-151).  The continuation after the await
\* reads and writes no state of the component: it only raises a toast, so the
\* request and its outcome (ok: the promise is fulfilled) are one step.
HandleFeedback(messageId, feedback, ok) ==
    /\ lastToast' =
          IF FeedbackRequests(messages, sessionId, messageId, feedback) = {}
          THEN "none"
          ELSE IF ok THEN "Feedback Sent" ELSE "Feedback Error"
    /\ UNCHANGED <<messages, inputValue, isLoading, sessionId, storedSessionId,
                   chatReqs, histReqs, serverHistory, nextReq, nextSession>>
    /\ UNCHANGED <<uploadVars, backendVars, healthVars>>

ChatSettle ==
    \E r \in chatReqs :
        \/ \E resp \in ChatResponses : ChatResolve(r, resp)
        \/ \E err \in Errors : ChatReject(r, err)

HistorySettle ==
    \E h \in histReqs : HistoryResolve(h) \/ HistoryReject(h)

ChatNext ==
    \/ \E v \in Inputs : SetInputValue(v)
    \/ SendMessage
    \/ ChatSettle
    \/ \E r \in chatReqs : ChatHang(r)
    \/ HistorySettle
    \/ \E h \in histReqs : HistoryHang(h)
    \/ CreateNewSession

\* the clicks on the feedback buttons of the rendered bubbles (part_002:19-27)
FeedbackNext ==
    \E id \in MessageIds, fb \in {"positive", "negative"}, ok \in BOOLEAN :
        HandleFeedback(id, fb, ok)

-----------------------------------------------------------------------------
(* UploadForm (part_001): pure parts *)

\* the file names the user can pick or drop, as sequences of characters
FileNames ==
    { <<"a", ".", "p", "d", "f">>,
      <<"a", ".", "P", "d", "F">>,
      <<"b", ".", "m", "d">>,
      <<"b", ".", "t", "x", "t">>,
      <<"a", ".", "e", "x", "e">>,
      <<"p", "d", "f", ".", "e">>,
      <<"a", ".">>,
      <<"p", "d", "f">> }

\* the FileLists a drop or a file input can deliver: addFiles reads only [0]
FileLists ==
    {<<>>} \cup {<<n>> : n \in FileNames}
           \cup {<<n, <<"a", ".", "p", "d", "f">>>> : n \in FileNames}

\* String.prototype.toLowerCase on one character
LowerChar(c) ==
    CASE c = "P" -> "p"
      [] c = "D" -> "d"
      [] c = "F" -> "f"
      [] OTHER -> c

ToLowerCase(str) == [i \in 1..Len(str) |-> LowerChar(str[i])]

RECURSIVE SplitPop(_)
\* name.split('.').pop(): the text after the last dot, or all of the name when
\* it has no dot
SplitPop(name) ==
    IF name = <<>> THEN <<>>
    ELSE IF name[Len(name)] = "." THEN <<>>
    ELSE Append(SplitPop(SubSeq(name, 1, Len(name) - 1)), name[Len(name)])

\* addFiles: const allowedTypes (part_001:47)
allowedTypes == { <<".", "p", "d", "f">>, <<".", "m", "d">>, <<".", "t", "x", "t">> }

\* addFiles: const extension (part_001:48)
Extension(name) == <<".">> \o ToLowerCase(SplitPop(name))

\* uploadFile: const correctPassword, the default of VITE_YOUR_PASSWORD (part_001:88)
correctPassword == "Password@123"

\* what the user can type into the password field
Passwords == {"", "guess", "Password@123"}

\* uploadFile: the simulated progress (part_001:98-101) and the final value
\* (part_001:115)
ProgressStep == 10
ProgressCap == 90
ProgressDone == 100

\* what a rejected /upload promise can carry (as Errors, with error.message)
UploadErrors ==
    { [isError |-> TRUE,  message |-> "Network Error", code |-> "ERR_NETWORK",
       hasResponse |-> FALSE, dataError |-> ""],
      [isError |-> TRUE,  message |-> "Request failed with status code 400",
       code |-> "ERR_BAD_REQUEST", hasResponse |-> TRUE, dataError |-> "Unsupported file type"],
      [isError |-> TRUE,  message |-> "Request failed with status code 500",
       code |-> "ERR_BAD_RESPONSE", hasResponse |-> TRUE, dataError |-> ""],
      [isError |-> FALSE, message |-> "", code |-> "", hasResponse |-> FALSE,
       dataError |-> ""] }

\* new Error("Incorrect password. Please try again.") (part_001:91)
IncorrectPasswordError ==
    [isError |-> TRUE, message |-> "Incorrect password. Please try again.",
     code |-> "", hasResponse |-> FALSE, dataError |-> ""]

\* uploadFile, catch branch: errorMessage (part_001:127-135)
UploadErrorMessage(err) ==
    IF err.isError
    THEN IF err.code = "ERR_NETWORK"
         THEN "Network error: Unable to connect to the server."
         ELSE IF err.hasResponse
         THEN IF err.dataError # "" THEN err.dataError ELSE "Server error occurred."
         ELSE err.message
    ELSE "Upload failed. Please try again."

\* prev.map(f => f.id === id ? {...f, ...} : f) with the three updates of uploadFile
MarkUploading(fs, id) ==
    [i \in 1..Len(fs) |->
        IF fs[i].id = id THEN [fs[i] EXCEPT !.status = "uploading", !.progress = 0]
        ELSE fs[i]]

\* MarkSuccess without the comparison of the id (a bug): every file of the list
\* is marked
MarkSuccess_All(fs, id) ==
    [i \in 1..Len(fs) |->
        [fs[i] EXCEPT !.status = "success", !.progress = ProgressDone]]

MarkSuccess(fs, id) ==
    [i \in 1..Len(fs) |->
        IF fs[i].id = id THEN [fs[i] EXCEPT !.status = "success", !.progress = ProgressDone]
        ELSE fs[i]]

MarkError(fs, id, errorMessage) ==
    [i \in 1..Len(fs) |->
        IF fs[i].id = id THEN [fs[i] EXCEPT !.status = "error", !.error = errorMessage]
        ELSE fs[i]]

\* Math.min(a, b)
Min(a, b) == IF a < b THEN a ELSE b

\* Tick without the test of the status (a bug): a tick puts the file back to
\* uploading
Tick_Restarts(fs, id) ==
    [i \in 1..Len(fs) |->
        IF fs[i].id = id
        THEN [fs[i] EXCEPT !.status = "uploading",
                           !.progress = Min(fs[i].progress + ProgressStep, ProgressCap)]
        ELSE fs[i]]

\* the updater of the progressInterval (part_001:96-106)
Tick(fs, id) ==
    IF \E i \in 1..Len(fs) :
          fs[i].id = id /\ fs[i].status = "uploading" /\ fs[i].progress < ProgressCap
    THEN [i \in 1..Len(fs) |->
            IF fs[i].id = id
            THEN [fs[i] EXCEPT !.progress = Min(fs[i].progress + ProgressStep, ProgressCap)]
            ELSE fs[i]]
    ELSE fs

RECURSIVE Filter(_, _)
\* prev.filter(file => file.id !== id)
Filter(fs, id) ==
    IF fs = <<>> THEN <<>>
    ELSE IF fs[1].id # id THEN <<fs[1]>> \o Filter(Tail(fs), id)
    ELSE Filter(Tail(fs), id)

-----------------------------------------------------------------------------
(* UploadForm (part_001): the component *)

\* useState initialisers (part_001:20-24)
UploadInit ==
    /\ files = <<>>
    /\ password = ""
    /\ isPasswordDialogOpen = FALSE
    /\ currentFileToUpload = <<>>
    /\ uploads = {}
    /\ timers = {}
    /\ uploadToast = "none"
    /\ nextFileId = 1

\* addFiles (part_001:34-61), reached from handleDrop and handleFileInput.
\* The password dialog is modal: while it is open the page takes no input.
AddFiles(fileList) ==
    /\ ~isPasswordDialogOpen
    /\ nextFileId <= MaxFiles
    /\ IF Len(fileList) = 0
       THEN /\ uploadToast' = "none"
            /\ UNCHANGED <<files, nextFileId>>
       ELSE LET file == fileList[1]
                newFile == [file |-> file, id |-> nextFileId, status |-> "pending",
                            progress |-> 0, error |-> ""] IN
            IF Extension(file) \notin allowedTypes
            THEN /\ uploadToast' = "Invalid File Type"
                 /\ UNCHANGED <<files, nextFileId>>
            ELSE /\ files' = <<newFile>>
                 /\ nextFileId' = nextFileId + 1
                 /\ uploadToast' = "none"
    /\ UNCHANGED <<password, isPasswordDialogOpen, currentFileToUpload, uploads, timers>>
    /\ UNCHANGED <<chatVars, backendVars, healthVars>>

\* removeFile (part_001:75-77); its button is rendered for a file that is not
\* uploading (part_001:262-271)
RemoveFile(i) ==
    /\ ~isPasswordDialogOpen
    /\ i \in 1..Len(files)
    /\ files[i].status # "uploading"
    /\ files' = Filter(files, files[i].id)
    /\ uploadToast' = "none"
    /\ UNCHANGED <<password, isPasswordDialogOpen, currentFileToUpload, uploads,
                   timers, nextFileId>>
    /\ UNCHANGED <<chatVars, backendVars, healthVars>>

\* initiateUpload (part_001:151-154); its button is rendered for a pending
\* file (part_001:251-260)
InitiateUpload(i) ==
    /\ ~isPasswordDialogOpen
    /\ i \in 1..Len(files)
    /\ files[i].status = "pending"
    /\ currentFileToUpload' = <<files[i]>>
    /\ isPasswordDialogOpen' = TRUE
    /\ uploadToast' = "none"
    /\ UNCHANGED <<files, password, uploads, timers, nextFileId>>
    /\ UNCHANGED <<chatVars, backendVars, healthVars>>

\* onChange of the password field of the dialog (part_001:288-292)
SetPassword(v) ==
    /\ isPasswordDialogOpen
    /\ password' = v
    /\ uploadToast' = "none"
    /\ UNCHANGED <<files, isPasswordDialogOpen, currentFileToUpload, uploads,
                   timers, nextFileId>>
    /\ UNCHANGED <<chatVars, backendVars, healthVars>>

\* the Cancel button and onOpenChange of the dialog (part_001:282, 301)
CloseDialog ==
    /\ isPasswordDialogOpen
    /\ isPasswordDialogOpen' = FALSE
    /\ uploadToast' = "none"
    /\ UNCHANGED <<files, password, currentFileToUpload, uploads, timers, nextFileId>>
    /\ UNCHANGED <<chatVars, backendVars, healthVars>>

\* HandlePasswordSubmit without the comparison of the password (a bug)
HandlePasswordSubmit_NoCheck ==
    /\ isPasswordDialogOpen
    /\ IF currentFileToUpload = <<>>
       THEN /\ uploadToast' = "none"
            /\ UNCHANGED <<files, password, isPasswordDialogOpen, uploads, timers>>
       ELSE LET uploadFile == currentFileToUpload[1] IN
            /\ files' = MarkUploading(files, uploadFile.id)
            /\ timers' = timers \cup {uploadFile.id}
            /\ uploads' = uploads \cup {[id |-> uploadFile.id, file |-> uploadFile.file]}
            /\ uploadToast' = "none"
            /\ isPasswordDialogOpen' = FALSE
            /\ password' = ""
    /\ UNCHANGED <<currentFileToUpload, nextFileId>>
    /\ UNCHANGED <<chatVars, backendVars, healthVars>>

\* handlePasswordSubmit (part_001:156-162) with the call of uploadFile up to
\* its await (part_001:79-109); with a wrong password the throw is caught
\* before anything is awaited (part_001:124-148)
HandlePasswordSubmit ==
    /\ isPasswordDialogOpen
    /\ IF currentFileToUpload = <<>>
       THEN /\ uploadToast' = "none"
            /\ UNCHANGED <<files, password, isPasswordDialogOpen, uploads, timers>>
       ELSE LET uploadFile == currentFileToUpload[1] IN
            /\ IF password # correctPassword
               THEN /\ files' = MarkError(MarkUploading(files, uploadFile.id), uploadFile.id,
                                          UploadErrorMessage(IncorrectPasswordError))
                    /\ uploadToast' = "Upload Failed"
                    /\ UNCHANGED <<uploads, timers>>
               ELSE /\ files' = MarkUploading(files, uploadFile.id)
                    /\ timers' = timers \cup {uploadFile.id}
                    /\ uploads' = uploads \cup {[id |-> uploadFile.id, file |-> uploadFile.file]}
                    /\ uploadToast' = "none"
            /\ isPasswordDialogOpen' = FALSE
            /\ password' = ""
    /\ UNCHANGED <<currentFileToUpload, nextFileId>>
    /\ UNCHANGED <<chatVars, backendVars, healthVars>>

\* one firing of the progressInterval (part_001:95-107)
ProgressTick(id) ==
    /\ id \in timers
    /\ files' = Tick(files, id)
    /\ uploadToast' = "none"
    /\ UNCHANGED <<password, isPasswordDialogOpen, currentFileToUpload, uploads,
                   timers, nextFileId>>
    /\ UNCHANGED <<chatVars, backendVars, healthVars>>

\* uploadFile after its await, the promise fulfilled (part_001:109-122)
UploadResolve(u) ==
    /\ u \in uploads
    /\ uploads' = uploads \ {u}
    /\ timers' = timers \ {u.id}
    /\ files' = MarkSuccess(files, u.id)
    /\ uploadToast' = "Upload Successful"
    /\ UNCHANGED <<password, isPasswordDialogOpen, currentFileToUpload, nextFileId>>
    /\ UNCHANGED <<chatVars, backendVars, healthVars>>

\* UploadReject followed by a new attempt (a bug): the request is issued again
UploadReject_Retries(u, err) ==
    /\ u \in uploads
    /\ uploads' = uploads
    /\ files' = MarkError(files, u.id, UploadErrorMessage(err))
    /\ uploadToast' = "Upload Failed"
    /\ UNCHANGED <<password, isPasswordDialogOpen, currentFileToUpload, timers, nextFileId>>
    /\ UNCHANGED <<chatVars, backendVars, healthVars>>

\* uploadFile after its await, the promise rejected (part_001:124-148); the
\* catch branch does not clear the interval
UploadReject(u, err) ==
    /\ u \in uploads
    /\ uploads' = uploads \ {u}
    /\ files' = MarkError(files, u.id, UploadErrorMessage(err))
    /\ uploadToast' = "Upload Failed"
    /\ UNCHANGED <<password, isPasswordDialogOpen, currentFileToUpload, timers, nextFileId>>
    /\ UNCHANGED <<chatVars, backendVars, healthVars>>

UploadNext ==
    \/ \E fileList \in FileLists : AddFiles(fileList)
    \/ \E i \in 1..Len(files) : RemoveFile(i)
    \/ \E i \in 1..Len(files) : InitiateUpload(i)
    \/ \E v \in Passwords : SetPassword(v)
    \/ CloseDialog
    \/ HandlePasswordSubmit
    \/ \E id \in timers : ProgressTick(id)
    \/ \E u \in uploads : UploadResolve(u)
    \/ \E u \in uploads, err \in UploadErrors : UploadReject(u, err)

-----------------------------------------------------------------------------
(* The backend: ingest, query and record_feedback.  Its code is not part of  *)
(* the sources at hand; it is modelled from the API documentation           *)
(* (part_000:22-49, 111-139) and the design specification (4.1-4.5, 5-7).   *)

DocIds == 1..MaxDocs

\* the extensions of the files handed to ingest
UploadExtensions == {".pdf", ".md", ".txt", ".exe"}

\* 4.1: the formats extract supports
SupportedExtensions == {".pdf", ".md", ".txt"}

\* the rating range of a FeedbackRequest (part_000:125)
RatingMin == 1
RatingMax == 5

\* the ratings a caller of record_feedback can send
Ratings == (RatingMin - 1)..(RatingMax + 1)

NoDoc == [status |-> "none", phase |-> "none", chunks |-> 0, total_chunks |-> 0]

BackendInit ==
    /\ docs = [d \in DocIds |-> NoDoc]
    /\ index = {}
    /\ queryResult = {}
    /\ ingestResult = [status |-> "none", doc_id |-> 0, total_chunks |-> 0, deleted |-> 0]
    /\ feedbackStore = <<>>
    /\ feedbackResult = [status |-> "none", feedback_id |-> 0]
    /\ nextDoc = 1

\* 4.4 delete_document(doc_id): the index without the vectors of the document
DeleteDocument(idx, d) == {v \in idx : v.doc_id # d}

\* FailIngestion without the cleanup (a bug): the vectors stay in the index
FailIngestion_NoCleanup(d, error) ==
    /\ docs' = [docs EXCEPT ![d] = [@ EXCEPT !.status = "failed", !.phase = "done"]]
    /\ index' = index
    /\ ingestResult' = [status |-> error, doc_id |-> d, total_chunks |-> 0,
                        deleted |-> 0]

\* 4.5: a step of the ingestion of d failed: the document becomes failed and
\* the vectors already upserted for it are deleted (compensating cleanup);
\* deleted is the number of vectors the cleanup removed
FailIngestion(d, error) ==
    /\ docs' = [docs EXCEPT ![d] = [@ EXCEPT !.status = "failed", !.phase = "done"]]
    /\ index' = DeleteDocument(index, d)
    /\ ingestResult' = [status |-> error, doc_id |-> d, total_chunks |-> 0,
                        deleted |-> Cardinality(index \ DeleteDocument(index, d))]

\* ingest(file_bytes, filename), 4.1: the extension is checked before any
\* processing begins; a supported file becomes a pending Document
IngestStart(ext) ==
    /\ nextDoc <= MaxDocs
    /\ IF ext \notin SupportedExtensions
       THEN /\ ingestResult' = [status |-> "UnsupportedFormat", doc_id |-> 0,
                                total_chunks |-> 0, deleted |-> 0]
            /\ UNCHANGED <<docs, nextDoc>>
       ELSE /\ docs' = [docs EXCEPT ![nextDoc] =
                           [status |-> "pending", phase |-> "extract", chunks |-> 0,
                            total_chunks |-> 0]]
            /\ nextDoc' = nextDoc + 1
            /\ UNCHANGED ingestResult
    /\ UNCHANGED <<index, queryResult, feedbackStore, feedbackResult>>
    /\ UNCHANGED <<chatVars, uploadVars, healthVars>>

\* 4.1, 4.2: extraction and chunking of d succeed and yield n chunks
ExtractAndChunk(d, n) ==
    /\ docs[d].status = "pending" /\ docs[d].phase = "extract"
    /\ docs' = [docs EXCEPT ![d] = [@ EXCEPT !.phase = "embed", !.chunks = n]]
    /\ UNCHANGED <<index, queryResult, ingestResult, feedbackStore, feedbackResult, nextDoc>>
    /\ UNCHANGED <<chatVars, uploadVars, healthVars>>

\* 4.1: extraction of d fails (a corrupt file)
ExtractFail(d) ==
    /\ docs[d].status = "pending" /\ docs[d].phase = "extract"
    /\ FailIngestion(d, "ExtractionError")
    /\ UNCHANGED <<queryResult, feedbackStore, feedbackResult, nextDoc>>
    /\ UNCHANGED <<chatVars, uploadVars, healthVars>>

\* 4.3, 5: all embedding batches of d completed; indexing may begin
EmbedAll(d) ==
    /\ docs[d].status = "pending" /\ docs[d].phase = "embed"
    /\ docs' = [docs EXCEPT ![d] = [@ EXCEPT !.phase = "index"]]
    /\ UNCHANGED <<index, queryResult, ingestResult, feedbackStore, feedbackResult, nextDoc>>
    /\ UNCHANGED <<chatVars, uploadVars, healthVars>>

\* 4.3: the retry budget of an embedding call of d is exhausted
EmbedFail(d) ==
    /\ docs[d].status = "pending" /\ docs[d].phase = "embed"
    /\ FailIngestion(d, "UpstreamUnavailable")
    /\ UNCHANGED <<queryResult, feedbackStore, feedbackResult, nextDoc>>
    /\ UNCHANGED <<chatVars, uploadVars, healthVars>>

\* the chunk indices of d that have a vector in the index
Upserted(idx, d) == {v.chunk_index : v \in {w \in idx : w.doc_id = d}}

\* 4.4 upsert(doc_id, chunk_index, vector, metadata) of the next chunk of d
Upsert(d) ==
    /\ docs[d].status = "pending" /\ docs[d].phase = "index"
    /\ Cardinality(Upserted(index, d)) < docs[d].chunks
    /\ index' = index \cup
          {[doc_id |-> d, chunk_index |-> Cardinality(Upserted(index, d))]}
    /\ UNCHANGED <<docs, queryResult, ingestResult, feedbackStore, feedbackResult, nextDoc>>
    /\ UNCHANGED <<chatVars, uploadVars, healthVars>>

\* 4.5: an index call of d fails
UpsertFail(d) ==
    /\ docs[d].status = "pending" /\ docs[d].phase = "index"
    /\ Cardinality(Upserted(index, d)) < docs[d].chunks
    /\ FailIngestion(d, "UpstreamUnavailable")
    /\ UNCHANGED <<queryResult, feedbackStore, feedbackResult, nextDoc>>
    /\ UNCHANGED <<chatVars, uploadVars, healthVars>>

\* 4.5: every chunk of d has its vector: d becomes indexed, and visible
Commit(d) ==
    /\ docs[d].status = "pending" /\ docs[d].phase = "index"
    /\ Cardinality(Upserted(index, d)) = docs[d].chunks
    /\ docs' = [docs EXCEPT ![d] = [@ EXCEPT !.status = "indexed", !.phase = "done",
                                             !.total_chunks = docs[d].chunks]]
    /\ ingestResult' = [status |-> "ok", doc_id |-> d, total_chunks |-> docs[d].chunks,
                        deleted |-> 0]
    /\ UNCHANGED <<index, queryResult, feedbackStore, feedbackResult, nextDoc>>
    /\ UNCHANGED <<chatVars, uploadVars, healthVars>>

\* 4.4, 5: what a query against the index can match: the vectors of the
\* documents that are indexed (visibility occurs atomically at indexed)
Visible(idx, ds) == {v \in idx : ds[v.doc_id].status = "indexed"}

\* 4.4 query(vector, top_k, min_score): the matches are drawn from the visible
\* vectors; queryResult keeps all the candidates, of which every ranked
\* top_k list is a part
Query ==
    /\ queryResult' = Visible(index, docs)
    /\ UNCHANGED <<docs, index, ingestResult, feedbackStore, feedbackResult, nextDoc>>
    /\ UNCHANGED <<chatVars, uploadVars, healthVars>>

\* RecordFeedback without the range check (a bug)
RecordFeedback_NoValidation(feedbackData) ==
    /\ Len(feedbackStore) < MaxFeedback
    /\ feedbackStore' = Append(feedbackStore, feedbackData)
    /\ feedbackResult' = [status |-> "ok", feedback_id |-> Len(feedbackStore) + 1]
    /\ UNCHANGED <<docs, index, queryResult, ingestResult, nextDoc>>
    /\ UNCHANGED <<chatVars, uploadVars, healthVars>>

\* record_feedback(session_id, question, answer, rating, comments?), 6 and 7:
\* a rating outside 1..5 is InvalidInput; otherwise the record is stored and
\* its feedback_id returned
RecordFeedback(feedbackData) ==
    /\ IF feedbackData.rating < RatingMin \/ feedbackData.rating > RatingMax
       THEN /\ feedbackResult' = [status |-> "InvalidInput", feedback_id |-> 0]
            /\ UNCHANGED feedbackStore
       ELSE /\ Len(feedbackStore) < MaxFeedback
            /\ feedbackStore' = Append(feedbackStore, feedbackData)
            /\ feedbackResult' = [status |-> "ok", feedback_id |-> Len(feedbackStore) + 1]
    /\ UNCHANGED <<docs, index, queryResult, ingestResult, nextDoc>>
    /\ UNCHANGED <<chatVars, uploadVars, healthVars>>

\* apiService.submitFeedback (part_000:407-416): the body is posted as it is
SubmitFeedback(feedbackData) == RecordFeedback(feedbackData)

BackendNext ==
    \/ \E ext \in UploadExtensions : IngestStart(ext)
    \/ \E d \in DocIds, n \in 1..MaxChunks : ExtractAndChunk(d, n)
    \/ \E d \in DocIds : ExtractFail(d)
    \/ \E d \in DocIds : EmbedAll(d)
    \/ \E d \in DocIds : EmbedFail(d)
    \/ \E d \in DocIds : Upsert(d)
    \/ \E d \in DocIds : UpsertFail(d)
    \/ \E d \in DocIds : Commit(d)
    \/ Query
    \/ \E rating \in Ratings :
          SubmitFeedback([FeedbackPayload(1, "q1", "a1", "positive") EXCEPT !.rating = rating])

-----------------------------------------------------------------------------
(* The backend's health check (part_000:141-159, design specification 4.8),  *)
(* modelled as the backend above.                                            *)

\* the three dependencies of a HealthResponse (part_000:153-157): storage,
\* vector index, generation/embedding
Services == {"mongodb", "pinecone", "gemini"}

\* how a probe can end: the dependency answers healthy or unhealthy, the probe
\* raises an error, or its timeout expires
ProbeOutcomes == {"healthy", "unhealthy", "error", "timeout"}

\* 4.8: the status reported for a probe that ended with this outcome
ServiceStatus(outcome) == IF outcome = "healthy" THEN "healthy" ELSE "unhealthy"

\* OverallStatus that is content with one healthy dependency (a bug)
OverallStatus_AnyHealthy(services) ==
    IF \E s \in Services : services[s] = "healthy" THEN "healthy" ELSE "degraded"

\* 4.8: overall = healthy iff all three report healthy; otherwise degraded
OverallStatus(services) ==
    IF \A s \in Services : services[s] = "healthy" THEN "healthy" ELSE "degraded"

HealthInit ==
    /\ probes = [s \in Services |-> "idle"]
    /\ healthResult = [status |-> "none", services |-> [s \in Services |-> "none"]]

\* check_health() is called: the three probes are started concurrently
CheckHealthStart ==
    /\ \A s \in Services : probes[s] = "idle"
    /\ probes' = [s \in Services |-> "pending"]
    /\ UNCHANGED healthResult
    /\ UNCHANGED <<chatVars, uploadVars, backendVars>>

\* the probe of one dependency ends, by an answer, an error or its own timeout
ProbeEnd(s, outcome) ==
    /\ probes[s] = "pending"
    /\ probes' = [probes EXCEPT ![s] = outcome]
    /\ UNCHANGED healthResult
    /\ UNCHANGED <<chatVars, uploadVars, backendVars>>

\* all probes have ended: check_health() returns {status, services}
CheckHealthReturn ==
    /\ \A s \in Services : probes[s] \in ProbeOutcomes
    /\ LET services == [s \in Services |-> ServiceStatus(probes[s])] IN
          healthResult' = [status |-> OverallStatus(services), services |-> services]
    /\ probes' = [s \in Services |-> "idle"]
    /\ UNCHANGED <<chatVars, uploadVars, backendVars>>

HealthNext ==
    \/ CheckHealthStart
    \/ \E s \in Services, outcome \in ProbeOutcomes : ProbeEnd(s, outcome)
    \/ CheckHealthReturn

-----------------------------------------------------------------------------
(* The specifications *)

\* the state after the pages are mounted and the backend has started
Init == ChatInit /\ UploadInit /\ BackendInit /\ HealthInit

\* the chat page
ChatSpec == Init /\ [][ChatNext]_vars

\* The event loop runs the continuation of every settled promise: a request the
\* server answers (or that fails) is eventually handled.  Nothing is assumed
\* about the user or about the server answering.
ChatFairSpec == ChatSpec /\ WF_vars(ChatSettle) /\ WF_vars(HistorySettle)

\* the chat page with its feedback buttons; a request the server never answers
\* is a request that is not answered yet
FeedbackPageNext ==
    \/ \E v \in Inputs : SetInputValue(v)
    \/ SendMessage
    \/ ChatSettle
    \/ HistorySettle
    \/ CreateNewSession
    \/ FeedbackNext

FeedbackSpec == Init /\ [][FeedbackPageNext]_vars

\* the upload page
UploadSpec == Init /\ [][UploadNext]_vars

\* the backend
BackendSpec == Init /\ [][BackendNext]_vars

\* the backend's health check
HealthSpec == Init /\ [][HealthNext]_vars

-----------------------------------------------------------------------------
(* Properties of the chat component *)

\* the indices of the bot messages that a /chat request of this page produced
ReplyIndices(msgs) == {i \in 1..Len(msgs) : msgs[i].isBot /\ msgs[i].req # 0}

NumBot(msgs) == Cardinality({i \in 1..Len(msgs) : msgs[i].isBot})

\* the four texts the catch branch of sendMessage can produce
ApologyTexts ==
    { "Sorry, I'm having trouble connecting to the server. Please try again.",
      "Network error: Unable to connect to the server. Please check your connection.",
      "Server error: boom",
      "Server error: Unknown error occurred" }

\* C3: every bot reply in the transcript directly follows the user message of
\* the request that produced it, with no other message in between.
C3_ReplyFollowsItsQuestion ==
    \A i \in ReplyIndices(messages) :
        /\ i > 1
        /\ ~messages[i - 1].isBot
        /\ messages[i - 1].req = messages[i].req

\* C4 as stated: a failed chat request appends no bot message for that request,
\* and no such message can be the answer of a feedback submission.
C4_FailedRequestAppendsNoBotMessage ==
    /\ \A i \in 1..Len(messages) : ~messages[i].err
    /\ \A id \in MessageIds, fb \in {"positive", "negative"} :
          \A p \in FeedbackRequests(messages, sessionId, id, fb) :
              p.answer \notin ApologyTexts

\* C4 as amended: a failed chat request appends no server answer and no
\* sources: the only thing it does to the transcript is to append one locally
\* built error message; all earlier entries are kept, nothing is appended to
\* the session's stored history, and that error message can be rated through
\* handleFeedback like any other bot message that follows a user message.
C4_FailedRequestAppendsOnlyLocalError ==
    [][ \A r \in chatReqs, err \in Errors :
          ChatReject(r, err) =>
            /\ Len(messages') = Len(messages) + 1
            /\ SubSeq(messages', 1, Len(messages)) = messages
            /\ serverHistory' = serverHistory
            /\ LET m == messages'[Len(messages')] IN
                  /\ m.isBot /\ m.err /\ m.req = r.req
                  /\ m.text \in ApologyTexts
                  /\ m.text \notin {resp.answer : resp \in ChatResponses}
                  /\ m.sources = <<>>
                  /\ (Len(messages) > 0 /\ ~messages[Len(messages)].isBot) =>
                        \A fb \in {"positive", "negative"} :
                            \E p \in FeedbackRequests(messages', sessionId', m.id, fb) :
                                p.answer = m.text
      ]_vars

\* a failed request has left its error message after the question it answers
C4_Witness ==
    \E i \in 2..Len(messages) :
        /\ messages[i].err
        /\ ~messages[i - 1].isBot
        /\ messages[i - 1].req = messages[i].req

\* C5: when a chat request fails, exactly one bot message with an error text
\* and no sources is shown for it, and isLoading returns to false.
C5_FailureShowsOneApology ==
    [][ \A r \in chatReqs, err \in Errors :
          ChatReject(r, err) =>
            /\ Len(messages') = Len(messages) + 1
            /\ NumBot(messages') = NumBot(messages) + 1
            /\ LET m == messages'[Len(messages')] IN
                  /\ m.isBot
                  /\ m.sources = <<>>
                  /\ m.text =
                        IF err.isError /\ err.code = "ERR_NETWORK"
                        THEN "Network error: Unable to connect to the server. Please check your connection."
                        ELSE IF err.isError /\ err.hasResponse /\ err.dataError = "boom"
                        THEN "Server error: boom"
                        ELSE IF err.isError /\ err.hasResponse
                        THEN "Server error: Unknown error occurred"
                        ELSE "Sorry, I'm having trouble connecting to the server. Please try again."
            /\ isLoading' = FALSE
      ]_vars

\* after a failed request a further question has been sent
C5_Witness ==
    \E i \in 1..Len(messages) :
        /\ messages[i].err
        /\ \E j \in (i + 1)..Len(messages) :
              ~messages[j].isBot /\ messages[j].req > messages[i].req

\* C6: the reply (or error message) of a request of a previous session is never
\* appended to the transcript of the current session.
C6_NoReplyOfAnotherSession ==
    \A i \in ReplyIndices(messages) : messages[i].sid = sessionId

\* C7: a history lookup for a session the backend has never seen is no error:
\* the transcript is left as it is (empty stays empty), no toast and no error
\* message is shown, and isLoading returns to false.
C7_UnknownSessionLoadsEmpty ==
    [][ \A h \in histReqs :
          (serverHistory[h.sid] = <<>> /\ (HistoryResolve(h) \/ HistoryReject(h))) =>
            /\ messages' = messages
            /\ (messages = <<>> => messages' = <<>>)
            /\ lastToast' = "none"
            /\ isLoading' = FALSE
      ]_vars

\* the history of the never-seen session 2 has been looked up
C7_Witness ==
    /\ sessionId = 2
    /\ serverHistory[2] = <<>>
    /\ \A h \in histReqs : h.sid # 2
    /\ messages = <<>>
    /\ ~isLoading

\* C8: a loaded history of length n gives a transcript of length n whose entry
\* i carries the text of history entry i and is a user message iff that entry
\* has role "user"; an empty history loads nothing.
C8_HistoryLoadedInOrder ==
    [][ \A h \in histReqs :
          HistoryResolve(h) =>
            LET history == serverHistory[h.sid]
                n == Len(history)
                loaded == FormatHistory(history, h.sid) IN
              /\ Len(loaded) = n
              /\ \A i \in 1..n :
                    /\ loaded[i].text = history[i].message
                    /\ ~loaded[i].isBot <=> history[i].role = "user"
              /\ n > 0 => messages' = loaded
              /\ n = 0 => messages' = messages
      ]_vars

\* a stored history of two or more entries has been loaded into the transcript
C8_Witness ==
    /\ Len(messages) >= 2
    /\ \A i \in 1..Len(messages) : messages[i].req = 0
    /\ ~messages[1].isBot /\ messages[2].isBot

\* C10: after a request was issued, isLoading eventually returns to false.
C10_LoadingEventuallyEnds == isLoading ~> ~isLoading

\* C14: in the sources of every bot message of the transcript each
\* (filename, page) pair occurs at most once.
C14_SourcesAreDeduplicated ==
    \A i \in 1..Len(messages) :
        messages[i].isBot =>
            \A j, k \in 1..Len(messages[i].sources) :
                j # k => messages[i].sources[j] # messages[i].sources[k]

\* the reply to a question of this page cites page 1 once, although two of the
\* chunks in its prompt are of page 1
C14_Witness ==
    /\ Cardinality({j \in 1..Len(IncludedChunks) : IncludedChunks[j] = Src1}) = 2
    /\ \E i \in 1..Len(messages) :
          /\ messages[i].isBot /\ messages[i].req # 0
          /\ Cardinality({j \in 1..Len(messages[i].sources) :
                             messages[i].sources[j] = Src1}) = 1
          /\ Len(messages[i].sources) = 2

\* C15: sessionId is never empty and always equals the value stored under
\* localStorage key 'chatSessionId'; it changes only through createNewSession,
\* which empties the transcript in the same step.
C15_SessionIdIsStoredAndKept ==
    /\ [](sessionId \in Sessions /\ sessionId = storedSessionId)
    /\ [][ sessionId' # sessionId => (CreateNewSession /\ messages' = <<>>) ]_vars

\* createNewSession has switched to session 2 while a question of session 1
\* was waiting for its answer
C15_Witness ==
    /\ sessionId = 2
    /\ storedSessionId = 2
    /\ lastToast = "New Session Created"
    /\ \E r \in chatReqs : r.sid = 1
    /\ messages = <<>>

\* the positions of the transcript that hold the bot message with this id
\* directly after a user message
RatedExchanges(id) ==
    {i \in 2..Len(messages) :
        messages[i].id = id /\ messages[i].isBot /\ ~messages[i - 1].isBot}

\* C16: handleFeedback posts a body only for a bot message that directly
\* follows a user message, with question = that user message's text, answer =
\* the bot message's text, session_id = sessionId and rating 5 (positive) or 1
\* (negative); for an unknown id, a user message or a bot message without a
\* preceding user message it posts nothing.
C16_FeedbackIdentifiesExchangeByContent ==
    \A id \in MessageIds, fb \in {"positive", "negative"} :
        LET sent == FeedbackRequests(messages, sessionId, id, fb) IN
          /\ RatedExchanges(id) = {} => sent = {}
          /\ \A i \in RatedExchanges(id) :
                /\ Cardinality(sent) = 1
                /\ \A p \in sent :
                      /\ p.session_id = sessionId
                      /\ p.question = messages[i - 1].text
                      /\ p.answer = messages[i].text
                      /\ p.rating = (IF fb = "positive" THEN 5 ELSE 1)
                      /\ p.rating \in 1..5

\* a feedback was sent from a transcript that also holds a bot message directly
\* after another bot message
C16_Witness ==
    /\ lastToast = "Feedback Sent"
    /\ \E i \in 2..Len(messages) : messages[i].isBot /\ ~messages[i - 1].isBot
    /\ \E i \in 2..Len(messages) : messages[i].isBot /\ messages[i - 1].isBot

\* C17: at most one chat request is in flight, and isLoading is true as long
\* as a chat request issued by sendMessage has not settled.
C17_SingleChatRequestInFlight ==
    /\ Cardinality(chatReqs) <= 1
    /\ chatReqs # {} => isLoading

\* C18: a history response is applied only to the session it was requested
\* for: every entry of the transcript that was loaded from a history belongs
\* to the current session, and the question of a request of the current
\* session that is still in flight is in the transcript (no history load has
\* replaced it).
C18_HistoryAppliedToItsSession ==
    /\ \A i \in 1..Len(messages) :
          messages[i].req = 0 => messages[i].sid = sessionId
    /\ \A r \in chatReqs :
          r.sid = sessionId =>
              \E j \in 1..Len(messages) :
                  ~messages[j].isBot /\ messages[j].req = r.req

-----------------------------------------------------------------------------
(* Properties of the upload form *)

\* the name has a dot, and the lower-cased text after its last dot is pdf, md
\* or txt
HasAllowedExtension(name) ==
    \E k \in 1..Len(name) :
        /\ name[k] = "."
        /\ \A j \in (k + 1)..Len(name) : name[j] # "."
        /\ ToLowerCase(SubSeq(name, k + 1, Len(name))) \in
              { <<"p", "d", "f">>, <<"m", "d">>, <<"t", "x", "t">> }

\* C2: a file whose extension is not .pdf, .md or .txt never enters the file
\* list (so it never gets a status) and no upload request is issued for it.
C2_UnsupportedFileIsRejected ==
    /\ \A i \in 1..Len(files) : HasAllowedExtension(files[i].file)
    /\ \A u \in uploads : HasAllowedExtension(u.file)

\* the ids of the files in the list
FileIds(fs) == {fs[i].id : i \in 1..Len(fs)}

\* the status of the file with this id in the list
StatusOf(fs, id) == fs[CHOOSE i \in 1..Len(fs) : fs[i].id = id].status

\* C11: a file's status moves along pending -> uploading -> success or error
\* (a wrong password takes it from pending through uploading to error within
\* one handler), and once it is success or error no step changes it again.
C11_TerminalStatusIsFinal ==
    [][ \A id \in FileIds(files) \cap FileIds(files') :
          LET old == StatusOf(files, id)
              new == StatusOf(files', id) IN
            /\ old \in {"success", "error"} => new = old
            /\ old = "uploading" => new \in {"uploading", "success", "error"}
            /\ old = "pending" =>
                  \/ new \in {"pending", "uploading"}
                  \/ /\ new = "error"
                     /\ files' = MarkError(MarkUploading(files, id), id,
                                           "Incorrect password. Please try again.")
      ]_vars

\* a rejected upload has left its file in error after some progress, and the
\* interval of that file is still firing
C11_Witness ==
    \E i \in 1..Len(files) :
        /\ files[i].status = "error"
        /\ files[i].progress >= ProgressStep
        /\ files[i].id \in timers

\* C12: a failed upload is not retried.  One step issues at most one upload
\* request, and only for a pending file on the user's submit of the password
\* dialog; the rejection of a request issues none; and no request is in flight
\* for a file that is pending, success or error.
C12_NoAutomaticRetry ==
    /\ [](\A i \in 1..Len(files) :
            files[i].status # "uploading" =>
                \A u \in uploads : u.id # files[i].id)
    /\ [][ /\ Cardinality(uploads' \ uploads) <= 1
           /\ \A u \in uploads' \ uploads :
                 /\ isPasswordDialogOpen
                 /\ u.id \in FileIds(files)
                 /\ StatusOf(files, u.id) = "pending"
           /\ (\E u \in uploads, err \in UploadErrors : UploadReject(u, err)) =>
                 uploads' \subseteq uploads
         ]_vars

\* an upload request of the file in the list was rejected and nothing is in
\* flight
C12_Witness ==
    /\ uploads = {}
    /\ \E i \in 1..Len(files) :
          /\ files[i].status = "error"
          /\ files[i].error = "Network error: Unable to connect to the server."

\* C19: no progress timer is active for a file whose status is success or
\* error.
C19_TimerStoppedWhenUploadEnds ==
    \A i \in 1..Len(files) :
        files[i].status \in {"success", "error"} => files[i].id \notin timers

\* C20: an upload request is issued, and a progress timer started, only when
\* the password entered equals the configured one; with a wrong password the
\* submit takes the file from pending through uploading to error with the
\* message "Incorrect password. Please try again." and issues nothing.
C20_UploadOnlyAfterPasswordCheck ==
    [][ /\ (uploads' \ uploads # {} \/ timers' \ timers # {}) =>
              password = "Password@123"
        /\ (HandlePasswordSubmit /\ currentFileToUpload # <<>>
                                 /\ password # "Password@123") =>
              LET id == currentFileToUpload[1].id IN
                /\ uploads' = uploads
                /\ timers' = timers
                /\ id \in FileIds(files)
                /\ StatusOf(files, id) = "pending"
                /\ files' = MarkError(MarkUploading(files, id), id,
                                      "Incorrect password. Please try again.")
                /\ StatusOf(files', id) = "error"
      ]_vars

\* a wrong password was submitted for the file in the list: nothing was sent
C20_Witness ==
    /\ uploads = {}
    /\ timers = {}
    /\ \E i \in 1..Len(files) :
          /\ files[i].status = "error"
          /\ files[i].error = "Incorrect password. Please try again."
          /\ files[i].progress = 0

\* C21: the upload list holds at most one file, and the completion of an
\* upload, by a response or by an error, leaves every file of the list that is
\* not the one it was started for as it is.
C21_CompletionActsOnItsOwnFile ==
    /\ [](Len(files) <= 1)
    /\ [][ \A u \in uploads :
             (UploadResolve(u) \/ \E err \in UploadErrors : UploadReject(u, err)) =>
                 /\ Len(files') = Len(files)
                 /\ \A i \in 1..Len(files) :
                       files[i].id # u.id => files'[i] = files[i]
         ]_vars

\* the upload of a file that had been replaced in the list has succeeded, and
\* the file now in the list is still pending
C21_Witness ==
    /\ uploadToast = "Upload Successful"
    /\ uploads = {}
    /\ Len(files) = 1
    /\ files[1].id > 1
    /\ files[1].status = "pending"
    /\ files[1].progress = 0

-----------------------------------------------------------------------------
(* Properties of the backend *)

\* the chunk indices of document d among the vectors vs
ChunksOf(vs, d) == {v.chunk_index : v \in {w \in vs : w.doc_id = d}}

\* C1: ingestion is atomic.  A failed document has no vector left in the
\* index, and what a query returned or can return holds, of every document,
\* either nothing or all of its chunks, and only of an indexed document.
C1_AtomicIngestion ==
    \A d \in DocIds :
        /\ docs[d].status = "failed" =>
              /\ ChunksOf(index, d) = {}
              /\ ChunksOf(queryResult, d) = {}
              /\ ChunksOf(Visible(index, docs), d) = {}
        /\ \A seen \in {ChunksOf(queryResult, d), ChunksOf(Visible(index, docs), d)} :
              seen # {} =>
                 /\ docs[d].status = "indexed"
                 /\ seen = 0..(docs[d].total_chunks - 1)

\* an index call failed after a vector of the document had been upserted, and
\* a query has returned the chunks of another document
C1_Witness ==
    /\ ingestResult.status = "UpstreamUnavailable"
    /\ ingestResult.deleted >= 1
    /\ docs[ingestResult.doc_id].status = "failed"
    /\ queryResult # {}

\* C9: record_feedback with a rating outside 1..5 is rejected as InvalidInput
\* and records nothing; a rating inside 1..5 is recorded and a feedback_id
\* returned.
C9_RatingOutsideRangeRejected ==
    [][ \A rating \in Ratings :
          LET feedbackData ==
                [FeedbackPayload(1, "q1", "a1", "positive") EXCEPT !.rating = rating] IN
          SubmitFeedback(feedbackData) =>
             IF rating \in 1..5
             THEN /\ feedbackResult'.status = "ok"
                  /\ feedbackResult'.feedback_id >= 1
                  /\ feedbackStore' = Append(feedbackStore, feedbackData)
             ELSE /\ feedbackResult'.status = "InvalidInput"
                  /\ feedbackStore' = feedbackStore
      ]_vars

\* a rating outside the range was rejected after a feedback had been recorded
C9_Witness ==
    /\ feedbackResult.status = "InvalidInput"
    /\ Len(feedbackStore) >= 1

\* C13: the health check reports healthy iff all three probes ended healthy
\* and degraded otherwise; a probe that ended with an error or a timeout is
\* reported unhealthy, and the check returns its result all the same.
C13_HealthyIffAllProbesHealthy ==
    [][ CheckHealthReturn =>
          /\ healthResult'.status \in {"healthy", "degraded"}
          /\ healthResult'.status = "healthy" <=>
                \A s \in Services : probes[s] = "healthy"
          /\ \A s \in Services :
                /\ probes[s] \in {"error", "timeout", "unhealthy"} =>
                      healthResult'.services[s] = "unhealthy"
                /\ probes[s] = "healthy" => healthResult'.services[s] = "healthy"
      ]_vars

\* the probe of the vector index failed and the other two succeeded
C13_Witness ==
    /\ healthResult.status = "degraded"
    /\ healthResult.services["pinecone"] = "unhealthy"
    /\ healthResult.services["mongodb"] = "healthy"
    /\ healthResult.services["gemini"] = "healthy"

=============================================================================
